---- MODULE Spec2Model ----
(***************************************************************************)
(* Model of the chat message bridge.                                       *)
(*                                                                         *)
(*   server/routes/chat.ts       handleChat  (the Forwarding Gateway)      *)
(*   client/components/Chat.tsx  Chat        (the Client Bridge)           *)
(*                                                                         *)
(* A text is a sequence of characters; the literals of the source are      *)
(* one-element sequences holding the literal.  A JavaScript value is a     *)
(* record tagged with its type in the field t.  The request body is an     *)
(* object (the JSON body parser ahead of the route yields one).  The id    *)
(* and timestamp of a transcript entry (Date.now) are not modelled.        *)
(***************************************************************************)
EXTENDS Integers, Sequences, FiniteSets, TLC

\* ---------------------------------------------------------------- bounds
MaxReqs == 2      \* requests posted straight to the gateway in a run
MaxCalls == 2     \* invocations of sendMessage in a run

\* the texts posted to the gateway: empty, whitespace only, plain, and padded
\* on both sides with whitespace inside
Padded == <<" ", "a", " ", "b", " ">>

PostedTexts == {<<>>, <<" ", " ">>, <<"a">>, Padded}

\* the texts typed into the input of the bridge
TypedTexts == {<<>>, <<" ", " ">>, Padded}

\* ------------------------------------------------------ JavaScript values
Undefined == [t |-> "undefined"]

Null == [t |-> "null"]

Num(n) == [t |-> "number", n |-> n]

Str(s) == [t |-> "string", v |-> s]

Lit(s) == Str(<<s>>)

\* A JSON object with the fields of ChatResponse; an absent field is Undefined.
Obj(reply, message, error) ==
    [t |-> "object", reply |-> reply, message |-> message, error |-> error]

\* ToBoolean, as applied by !x and by x || y
Truthy(x) ==
    CASE x.t = "string" -> x.v # <<>>
      [] x.t = "number" -> x.n # 0
      [] x.t = "object" -> TRUE
      [] OTHER -> FALSE

IsSpace(c) == c = " "

RECURSIVE TrimStart(_)
TrimStart(s) ==
    IF s # <<>> /\ IsSpace(Head(s)) THEN TrimStart(Tail(s)) ELSE s

RECURSIVE TrimEnd(_)
TrimEnd(s) ==
    IF s # <<>> /\ IsSpace(s[Len(s)]) THEN TrimEnd(SubSeq(s, 1, Len(s) - 1)) ELSE s

\* String.prototype.trim
Trim(s) == TrimEnd(TrimStart(s))

\* Response.ok
Ok(status) == status \in 200..299

\* the reason phrase the HTTP stack attaches to a status
StatusText(status) ==
    CASE status = 200 -> "OK"
      [] status = 400 -> "Bad Request"
      [] status = 500 -> "Internal Server Error"
      [] status = 503 -> "Service Unavailable"
      [] OTHER -> ""

\* ------------------------------------------------------------ environment
WebhookUrl == Lit("https://n8n.example/webhook/chat")

\* process.env.N8N_WEBHOOK_URL: unset, set to the empty string, or set
EnvValues == {Undefined, Str(<<>>), WebhookUrl}

\* the message fields a posted body can carry
PostedMessages == {Undefined, Num(0), Num(5)} \cup {Str(s) : s \in PostedTexts}

\* what the webhook's JSON body can parse to
WebhookData ==
    { Null,
      Obj(Undefined, Undefined, Undefined),
      Obj(Lit("Hi there"), Undefined, Undefined),
      Obj(Undefined, Lit("Hi"), Undefined),
      Obj(Str(<<>>), Lit("Hi"), Undefined),
      Obj(Lit("Hi there"), Lit("Hi"), Undefined) }

\* how the outbound fetch settles: rejection, or a response with a status
FetchOutcomes ==
    { [kind |-> "reject", status |-> 0],
      [kind |-> "response", status |-> 503],
      [kind |-> "response", status |-> 200] }

\* how reading the response body settles: a parse failure, or a JSON value
BodyOutcomes ==
    {[parsed |-> FALSE, data |-> Null]} \cup {[parsed |-> TRUE, data |-> d] : d \in WebhookData}

Err(msg) == [isError |-> TRUE, message |-> msg]

VARIABLES
    env,        \* process.env.N8N_WEBHOOK_URL
    reqs,       \* the requests posted to /api/chat, in order of posting
    messages,   \* Chat: the transcript
    input,      \* Chat: the input text
    isLoading,  \* Chat: the loading flag
    error,      \* Chat: the error slot (Null or a string)
    subs,       \* Chat: the sendMessage invocations that passed the guard
    calls       \* Chat: the number of sendMessage invocations

vars == <<env, reqs, messages, input, isLoading, error, subs, calls>>

gateway == <<env, reqs>>

bridge == <<messages, input, isLoading, error, subs, calls>>

\* ------------------------------------------------------------- the gateway
NoUpstream == [kind |-> "none", status |-> 0, body |-> "unread", data |-> Null]

\* a request as it reaches the route: origin is the sendMessage invocation
\* that posted it, 0 for a request posted by another client
NewRequest(body, origin) ==
    [origin |-> origin, body |-> body, pc |-> "sent", webhookUrl |-> Undefined,
     outbound |-> <<>>, upstream |-> NoUpstream, responses |-> <<>>, logged |-> 0]

\* the trim of the check left out
IsInvalidMessage_NoTrim(message) ==
    \/ ~Truthy(message)
    \/ message.t # "string"

\* chat.ts line 20: !message || typeof message !== "string" || !message.trim()
IsInvalidMessage(message) ==
    \/ ~Truthy(message)
    \/ message.t # "string"
    \/ ~Truthy(Str(Trim(message.v)))

\* the address compared with undefined only
IsUnconfigured_OnlyUndefined(webhookUrl) == webhookUrl = Undefined

\* chat.ts line 27: !webhookUrl
IsUnconfigured(webhookUrl) == ~Truthy(webhookUrl)

\* chat.ts line 21
ValidationResponse ==
    [status |-> 400, body |-> Obj(Undefined, Undefined, Lit("Message is required"))]

\* chat.ts lines 28-31
ConfigResponse ==
    [status |-> 500,
     body |-> Obj(Undefined, Undefined,
                  Lit("N8N_WEBHOOK_URL is not configured. Please set it in your environment variables."))]

\* the message forwarded as received
OutboundCall_Untrimmed(webhookUrl, message) ==
    [url |-> webhookUrl, method |-> "POST", contentType |-> "application/json",
     body |-> [query |-> message.v]]

\* chat.ts lines 37-41: the outbound call
OutboundCall(webhookUrl, message) ==
    [url |-> webhookUrl, method |-> "POST", contentType |-> "application/json",
     body |-> [query |-> Trim(message.v)]]

\* chat.ts lines 44-46
UpstreamError(status) ==
    Err(<<"n8n webhook returned status ", ToString(status), ": ", StatusText(status)>>)

\* the TypeError a rejected fetch carries
NetworkError == Err(<<"fetch failed">>)

\* the SyntaxError response.json() raises on a body that is not JSON
ParseError == Err(<<"Unexpected token < in JSON at position 0">>)

\* the gateway picking the content field itself
SuccessResponse_Normalized(data) ==
    [status |-> 200,
     body |-> IF data = Null THEN data
              ELSE Obj(IF Truthy(data.reply) THEN data.reply ELSE data.message,
                       Undefined, data.error)]

\* chat.ts line 52: res.json(data), the status left at its default
SuccessResponse(data) == [status |-> 200, body |-> data]

\* the message of the failure dropped for the generic one
CatchResponse_Generic(err) ==
    [status |-> 500,
     body |-> Obj(Undefined,
                  Lit("Unable to reach the chat service. Please try again later."),
                  Lit("Failed to process your message"))]

\* a failure answered from the last successful reply, kept across requests
CatchResponse_Cached(err) ==
    IF \E j \in 1..Len(reqs) : reqs[j].pc = "done" /\ reqs[j].responses[1].status = 200
    THEN LET j == CHOOSE j \in 1..Len(reqs) :
                      reqs[j].pc = "done" /\ reqs[j].responses[1].status = 200
         IN  reqs[j].responses[1]
    ELSE [status |-> 500,
          body |-> Obj(Undefined,
                       Lit("Unable to reach the chat service. Please try again later."),
                       Str(err.message))]

\* chat.ts lines 56-64
CatchResponse(err) ==
    [status |-> 500,
     body |-> Obj(Undefined,
                  Lit("Unable to reach the chat service. Please try again later."),
                  IF err.isError THEN Str(err.message) ELSE Lit("Failed to process your message"))]

\* chat.ts lines 53-65: the catch block
Catch(r, err) ==
    [r EXCEPT !.pc = "done", !.logged = @ + 1,
              !.responses = Append(@, CatchResponse(err))]

\* chat.ts lines 17-41: handleChat up to its first await
HandleChatStart(r) ==
    LET message == r.body.message IN
    IF IsInvalidMessage(message)
    THEN [r EXCEPT !.pc = "done", !.responses = Append(@, ValidationResponse)]
    ELSE IF IsUnconfigured(env)
    THEN [r EXCEPT !.pc = "done", !.webhookUrl = env,
                   !.responses = Append(@, ConfigResponse)]
    ELSE [r EXCEPT !.pc = "fetch", !.webhookUrl = env,
                   !.outbound = Append(@, OutboundCall(env, message))]

\* chat.ts lines 37-49: the fetch settles
AfterFetch(r, o) ==
    LET seen == [r EXCEPT !.upstream.kind = o.kind, !.upstream.status = o.status] IN
    IF o.kind = "reject" THEN Catch(seen, NetworkError)
    ELSE IF ~Ok(o.status) THEN Catch(seen, UpstreamError(o.status))
    ELSE [seen EXCEPT !.pc = "json"]

\* chat.ts lines 49-52: response.json() settles
AfterJson(r, b) ==
    IF ~b.parsed
    THEN Catch([r EXCEPT !.upstream.body = "malformed"], ParseError)
    ELSE [r EXCEPT !.pc = "done", !.upstream.body = "json", !.upstream.data = b.data,
                   !.responses = Append(@, SuccessResponse(b.data))]

\* a client other than the bridge posts a body to /api/chat
Post ==
    /\ Len(reqs) < MaxReqs
    /\ \E m \in PostedMessages :
          reqs' = Append(reqs, NewRequest([message |-> m], 0))
    /\ UNCHANGED <<env, bridge>>

\* the operator sets or unsets N8N_WEBHOOK_URL
SetEnv ==
    /\ \E u \in EnvValues : u # env /\ env' = u
    /\ UNCHANGED <<reqs, bridge>>

handleChat ==
    /\ \E i \in 1..Len(reqs) :
          /\ reqs[i].pc = "sent"
          /\ reqs' = [reqs EXCEPT ![i] = HandleChatStart(reqs[i])]
    /\ UNCHANGED <<env, bridge>>

FetchSettles ==
    /\ \E i \in 1..Len(reqs), o \in FetchOutcomes :
          /\ reqs[i].pc = "fetch"
          /\ reqs' = [reqs EXCEPT ![i] = AfterFetch(reqs[i], o)]
    /\ UNCHANGED <<env, bridge>>

JsonSettles ==
    /\ \E i \in 1..Len(reqs), b \in BodyOutcomes :
          /\ reqs[i].pc = "json"
          /\ reqs' = [reqs EXCEPT ![i] = AfterJson(reqs[i], b)]
    /\ UNCHANGED <<env, bridge>>

Init ==
    /\ env \in EnvValues
    /\ reqs = <<>>
    /\ messages = <<>>
    /\ input = <<>>
    /\ isLoading = FALSE
    /\ error = Null
    /\ subs = <<>>
    /\ calls = 0

Next == Post \/ SetEnv \/ handleChat \/ FetchSettles \/ JsonSettles

Spec == Init /\ [][Next]_vars

\* -------------------------------------------------------------- the bridge
NoResp == [status |-> 0, body |-> Null]

\* the trim of the guard left out
IsBlankInput_NoTrim(text) == ~Truthy(Str(text))

\* Chat.tsx line 32: !input.trim()
IsBlankInput(text) == ~Truthy(Str(Trim(text)))

\* Chat.tsx lines 35-40
UserMessage(text) == [text |-> Str(text), sender |-> "user"]

\* Chat.tsx line 51: the body posted to /api/chat
OutboundRequest(text) == [message |-> Str(text)]

\* Chat.tsx line 55
ApiError(status) == Err(<<"API error: ", StatusText(status)>>)

\* the TypeError a rejected fetch carries in the browser
FailedToFetch == Err(<<"Failed to fetch">>)

\* the error response.json() rejects with when the body cannot be read
ReadError == Err(<<"Failed to execute 'json' on 'Response'">>)

\* the TypeError of reading data.reply when data is null
NullReadError == Err(<<"Cannot read properties of null (reading 'reply')">>)

\* the two fields tried in the other order
BotReply_MessageFirst(data) ==
    IF Truthy(data.message) THEN data.message
    ELSE IF Truthy(data.reply) THEN data.reply
    ELSE Lit("No response from bot")

\* Chat.tsx line 61: data.reply || data.message || "No response from bot"
BotReply(data) ==
    IF Truthy(data.reply) THEN data.reply
    ELSE IF Truthy(data.message) THEN data.message
    ELSE Lit("No response from bot")

\* Chat.tsx lines 63-68
BotMessage(data) == [text |-> BotReply(data), sender |-> "bot"]

\* the failure added to the error already shown
CatchError_Accumulate(err) ==
    IF error = Null THEN Str(err.message) ELSE Str(error.v \o err.message)

\* Chat.tsx lines 72-73
CatchError(err) ==
    IF err.isError THEN Str(err.message) ELSE Lit("Failed to send message")

\* the flag cleared at the end of the try block instead of in finally
LoadingAfterSettle_OnlyOnSuccess(failed) == failed

\* Chat.tsx line 77: the loading flag after the finally block
LoadingAfterSettle(failed) == FALSE

\* Chat.tsx line 208: onChange
Type ==
    /\ \E t \in TypedTexts : t # input /\ input' = t
    /\ UNCHANGED <<gateway, messages, isLoading, error, subs, calls>>

\* Chat.tsx lines 208-210: the input as rendered is disabled while loading
TypeEnabled == ~isLoading /\ Type

\* Chat.tsx lines 29-52: sendMessage up to its first await
sendMessage ==
    /\ calls < MaxCalls
    /\ calls' = calls + 1
    /\ IF IsBlankInput(input)
       THEN UNCHANGED <<gateway, messages, input, isLoading, error, subs>>
       ELSE /\ messages' = Append(messages, UserMessage(input))
            /\ input' = <<>>
            /\ error' = Null
            /\ isLoading' = TRUE
            /\ reqs' = Append(reqs, NewRequest(OutboundRequest(input), Len(subs) + 1))
            /\ subs' = Append(subs, [text |-> input, req |-> Len(reqs) + 1, pc |-> "fetch",
                                     resp |-> NoResp, read |-> "none"])
            /\ UNCHANGED env

\* Chat.tsx lines 71-79: catch, then finally
Fail(k, s, err) ==
    /\ subs' = [subs EXCEPT ![k] = [s EXCEPT !.pc = "done"]]
    /\ error' = CatchError(err)
    /\ isLoading' = LoadingAfterSettle(TRUE)
    /\ UNCHANGED <<gateway, messages, input, calls>>

\* Chat.tsx lines 48-58: the fetch of /api/chat settles, by a rejection or
\* by the response of the gateway
ClientFetchSettles ==
    \E k \in 1..Len(subs) :
        /\ subs[k].pc = "fetch"
        /\ \/ Fail(k, subs[k], FailedToFetch)
           \/ /\ reqs[subs[k].req].pc = "done"
              /\ LET resp == reqs[subs[k].req].responses[1]
                     s == [subs[k] EXCEPT !.resp = resp] IN
                 IF ~Ok(resp.status)
                 THEN Fail(k, s, ApiError(resp.status))
                 ELSE /\ subs' = [subs EXCEPT ![k] = [s EXCEPT !.pc = "json"]]
                      /\ UNCHANGED <<gateway, messages, input, isLoading, error, calls>>

\* Chat.tsx lines 58-79: response.json() settles
ClientJsonSettles ==
    \E k \in 1..Len(subs), readable \in BOOLEAN :
        /\ subs[k].pc = "json"
        /\ LET data == subs[k].resp.body IN
           IF ~readable
           THEN Fail(k, [subs[k] EXCEPT !.read = "failed"], ReadError)
           ELSE IF data = Null
           THEN Fail(k, [subs[k] EXCEPT !.read = "ok"], NullReadError)
           ELSE /\ messages' = Append(messages, BotMessage(data))
                /\ subs' = [subs EXCEPT ![k] = [@ EXCEPT !.pc = "done", !.read = "ok"]]
                /\ isLoading' = LoadingAfterSettle(FALSE)
                /\ UNCHANGED <<gateway, input, error, calls>>

\* The handlers of the bridge run whenever they are invoked: the disabled
\* attributes of the rendered form are advisory, so submissions may overlap.
NextBridge ==
    \/ Type
    \/ sendMessage
    \/ handleChat
    \/ FetchSettles
    \/ JsonSettles
    \/ ClientFetchSettles
    \/ ClientJsonSettles

SpecBridge == Init /\ [][NextBridge]_vars

\* The bridge behind its rendered form: the input takes no text while loading.
NextForm ==
    \/ TypeEnabled
    \/ sendMessage
    \/ handleChat
    \/ FetchSettles
    \/ JsonSettles
    \/ ClientFetchSettles
    \/ ClientJsonSettles

\* the gateway handles every request it is sent, its calls settle, and so do
\* the awaits of the bridge
FairBridge ==
    /\ Init
    /\ [][NextForm]_vars
    /\ WF_vars(handleChat)
    /\ WF_vars(FetchSettles)
    /\ WF_vars(JsonSettles)
    /\ WF_vars(ClientFetchSettles)
    /\ WF_vars(ClientJsonSettles)

\* ------------------------------------------------- gateway: the properties
Handled(r) == r.pc # "sent"

Done(r) == r.pc = "done"

\* a message that is missing, not a string, or empty after trimming
Rejectable(m) == m.t # "string" \/ \A k \in 1..Len(m.v) : m.v[k] = " "

Spaces(n) == [k \in 1..n |-> " "]

\* q is s with nothing but leading and trailing whitespace removed
IsTrimOf(q, s) ==
    /\ \E a, b \in 0..Len(s) : s = Spaces(a) \o q \o Spaces(b)
    /\ q # <<>> => (q[1] # " " /\ q[Len(q)] # " ")

\* the webhook address as the handler read it is unset
Unset(u) == u = Undefined \/ u = Str(<<>>)

UnavailableText == "Unable to reach the chat service. Please try again later."

\* C1: a request whose message is missing, not a string or empty after
\* trimming is answered 400 {error: "Message is required"} and makes no
\* outbound call, whatever the webhook address is.
C1_InvalidMessageRejected ==
    \A i \in 1..Len(reqs) :
        LET r == reqs[i] IN
        Rejectable(r.body.message) =>
            /\ r.outbound = <<>>
            /\ Handled(r) =>
                  /\ Len(r.responses) = 1
                  /\ r.responses[1].status = 400
                  /\ r.responses[1].body = Obj(Undefined, Undefined, Lit("Message is required"))

C1_Witness ==
    \E i \in 1..Len(reqs) :
        /\ reqs[i].body.message = Str(<<" ", " ">>)
        /\ Done(reqs[i])
        /\ env = WebhookUrl
        /\ \E j \in 1..Len(reqs) : reqs[j].body.message = Num(5) /\ Done(reqs[j])

\* C2: with the webhook address unset when the request is handled, a request
\* with a valid message is answered 500 with the configuration error, a body
\* without a message field, and makes no outbound call.
C2_UnconfiguredIs500 ==
    \A i \in 1..Len(reqs) :
        LET r == reqs[i] IN
        (Handled(r) /\ ~Rejectable(r.body.message) /\ Unset(r.webhookUrl)) =>
            /\ r.outbound = <<>>
            /\ Done(r)
            /\ Len(r.responses) = 1
            /\ r.responses[1].status = 500
            /\ r.responses[1].body.message = Undefined
            /\ r.responses[1].body.reply = Undefined
            /\ r.responses[1].body.error =
                  Lit("N8N_WEBHOOK_URL is not configured. Please set it in your environment variables.")

C2_Witness ==
    \E i \in 1..Len(reqs) :
        /\ reqs[i].body.message = Str(Padded)
        /\ Done(reqs[i])
        /\ reqs[i].webhookUrl = Undefined
        /\ reqs[i].responses[1].status = 500

\* C3: a success status with a JSON body is answered 200 with exactly the
\* value the webhook sent.
C3_PassThrough ==
    \A i \in 1..Len(reqs) :
        LET r == reqs[i] IN
        (r.upstream.kind = "response" /\ Ok(r.upstream.status) /\ r.upstream.body = "json") =>
            r.responses = <<[status |-> 200, body |-> r.upstream.data]>>

C3_Witness ==
    \E i \in 1..Len(reqs) :
        /\ Done(reqs[i])
        /\ reqs[i].upstream.body = "json"
        /\ reqs[i].upstream.data = Obj(Lit("Hi there"), Lit("Hi"), Undefined)
        /\ reqs[i].responses[1].status = 200

\* C4: a request that passes validation with the webhook configured makes
\* exactly one outbound POST, whatever the webhook answers, and its query is
\* the message with only leading and trailing whitespace removed.
C4_OneCallTrimmedQuery ==
    \A i \in 1..Len(reqs) :
        LET r == reqs[i] IN
        (Handled(r) /\ ~Rejectable(r.body.message) /\ ~Unset(r.webhookUrl)) =>
            /\ Len(r.outbound) = 1
            /\ r.outbound[1].method = "POST"
            /\ r.outbound[1].url = r.webhookUrl
            /\ IsTrimOf(r.outbound[1].body.query, r.body.message.v)

C4_Witness ==
    \E i \in 1..Len(reqs) :
        /\ reqs[i].body.message = Str(Padded)
        /\ Done(reqs[i])
        /\ reqs[i].upstream.status = 503
        /\ reqs[i].outbound[1].body.query = <<"a", " ", "b">>

\* the message of the failure the webhook's answer raises in the handler
FailureMessage(u) ==
    IF u.kind = "reject" THEN <<"fetch failed">>
    ELSE IF ~Ok(u.status)
    THEN <<"n8n webhook returned status ", ToString(u.status), ": ", StatusText(u.status)>>
    ELSE <<"Unexpected token < in JSON at position 0">>

Failed(u) ==
    \/ u.kind = "reject"
    \/ u.kind = "response" /\ ~Ok(u.status)
    \/ u.body = "malformed"

Isolated(m, u, up) ==
    IF Rejectable(m)
    THEN [status |-> 400, body |-> Obj(Undefined, Undefined, Lit("Message is required"))]
    ELSE IF Unset(u)
    THEN [status |-> 500,
          body |-> Obj(Undefined, Undefined,
                       Lit("N8N_WEBHOOK_URL is not configured. Please set it in your environment variables."))]
    ELSE IF Failed(up)
    THEN [status |-> 500,
          body |-> Obj(Undefined, Lit(UnavailableText), Str(FailureMessage(up)))]
    ELSE [status |-> 200, body |-> up.data]

\* C8: the response to a request is a function of its own message, the
\* webhook address it read and the webhook's answer to its own call: it is
\* the response the request gets in isolation, and two requests that agree
\* on the three get the same response, whatever else was handled before or
\* in between.
C8_Isolation ==
    /\ \A i \in 1..Len(reqs) :
          LET r == reqs[i] IN
          Done(r) => r.responses = <<Isolated(r.body.message, r.webhookUrl, r.upstream)>>
    /\ \A i, j \in 1..Len(reqs) :
          LET r == reqs[i]
              q == reqs[j] IN
          (Done(r) /\ Done(q) /\ r.body.message = q.body.message
              /\ r.webhookUrl = q.webhookUrl /\ r.upstream = q.upstream) =>
                 r.responses = q.responses

\* the second request gets its answer while the first, which then fails,
\* is still in flight
C8_Witness ==
    /\ Len(reqs) >= 2
    /\ Done(reqs[1]) /\ reqs[1].upstream.status = 503
    /\ Done(reqs[2]) /\ reqs[2].upstream.body = "json"
    /\ reqs[2].responses[1].status = 200

\* -------------------------------------------------- bridge: the properties
\* submission k settles in this step
Settles(k) == k <= Len(subs) /\ subs[k].pc # "done" /\ subs'[k].pc = "done"

\* sendMessage is invoked in this step
Invoked == calls' = calls + 1

\* a settled exchange got a success status and a body that was read as a
\* JSON value other than null
Succeeded(s) ==
    s.pc = "done" /\ Ok(s.resp.status) /\ s.read = "ok" /\ s.resp.body # Null

\* the message of the failure a settled, failed exchange ended with
ClientFailureText(s) ==
    IF s.resp.status = 0 THEN <<"Failed to fetch">>
    ELSE IF ~Ok(s.resp.status) THEN <<"API error: ", StatusText(s.resp.status)>>
    ELSE IF s.read = "failed" THEN <<"Failed to execute 'json' on 'Response'">>
    ELSE <<"Cannot read properties of null (reading 'reply')">>

BotEntries(m) == {i \in 1..Len(m) : m[i].sender = "bot"}

\* C6: a failed exchange appends no transcript entry and leaves the error
\* slot holding exactly the non-empty string of that failure, whatever it
\* held; the bot entries are as many as the successful exchanges.
C6_FailureSetsErrorOnly ==
    /\ [][\A k \in 1..MaxCalls :
            (Settles(k) /\ ~Succeeded(subs'[k])) =>
                /\ messages' = messages
                /\ error'.t = "string"
                /\ error'.v # <<>>
                /\ error' = Str(ClientFailureText(subs'[k]))]_vars
    /\ [](Cardinality(BotEntries(messages))
            = Cardinality({k \in 1..Len(subs) : Succeeded(subs[k])}))

\* two exchanges have failed in different ways, the later failure's string
\* being the one the error slot holds
C6_Witness ==
    /\ Len(subs) = 2
    /\ subs[1].pc = "done" /\ subs[1].resp.status = 0
    /\ subs[2].pc = "done" /\ subs[2].resp.status = 500
    /\ reqs[subs[2].req].upstream.status = 503
    /\ error = Str(<<"API error: ", "Internal Server Error">>)
    /\ BotEntries(messages) = {}

Has(field) == field # Undefined

\* the display text by presence of the fields
TextByPresence(data) ==
    IF data = Null THEN Lit("No response from bot")
    ELSE IF Has(data.reply) THEN data.reply
    ELSE IF Has(data.message) THEN data.message
    ELSE Lit("No response from bot")

\* the display text of a JSON object: the first field that is a non-empty string
TextByContent(data) ==
    IF Has(data.reply) /\ data.reply # Str(<<>>) THEN data.reply
    ELSE IF Has(data.message) /\ data.message # Str(<<>>) THEN data.message
    ELSE Lit("No response from bot")

\* a success response whose body was read as JSON settles in this step
SettlesRead(k) == Settles(k) /\ Ok(subs'[k].resp.status) /\ subs'[k].read = "ok"

\* C7 as stated: every success response with a JSON body appends one bot
\* entry: reply if the body has one, else message if it has one, else the
\* literal.
C7_TextByPresence ==
    [][\A k \in 1..MaxCalls :
          SettlesRead(k) =>
              messages' = Append(messages, [text |-> TextByPresence(subs'[k].resp.body),
                                            sender |-> "bot"])]_vars

\* C7 amended: a success response whose JSON body is an object appends one
\* bot entry: reply if it is a non-empty string, else message if it is a
\* non-empty string, else the literal; a body of null appends none.
C7_TextByContent ==
    [][\A k \in 1..MaxCalls :
          SettlesRead(k) =>
              IF subs'[k].resp.body = Null
              THEN messages' = messages
              ELSE messages' = Append(messages, [text |-> TextByContent(subs'[k].resp.body),
                                                 sender |-> "bot"])]_vars

C7_Witness ==
    \E k \in 1..Len(subs) :
        /\ Succeeded(subs[k])
        /\ subs[k].resp.body = Obj(Str(<<>>), Lit("Hi"), Undefined)
        /\ messages[Len(messages)] = [text |-> Lit("Hi"), sender |-> "bot"]
        /\ \E j \in 1..Len(subs) :
              Succeeded(subs[j]) /\ subs[j].resp.body = Obj(Lit("Hi there"), Lit("Hi"), Undefined)

Blank(text) == \A k \in 1..Len(text) : text[k] = " "

\* C9: an invocation with an input that is empty after trimming changes
\* nothing and sends nothing; every request of the bridge carries a message
\* that is not empty after trimming and is never answered 400.
C9_BlankSubmitNoOp ==
    /\ [][(Invoked /\ Blank(input)) =>
             UNCHANGED <<messages, input, error, isLoading, subs, reqs>>]_vars
    /\ [](\A i \in 1..Len(reqs) :
             reqs[i].origin # 0 =>
                 /\ reqs[i].body.message.t = "string"
                 /\ ~Blank(reqs[i].body.message.v)
                 /\ \A j \in 1..Len(reqs[i].responses) : reqs[i].responses[j].status # 400)

\* an invocation on a whitespace input has returned at once, after an
\* earlier one was answered
C9_Witness ==
    /\ calls = 2
    /\ Len(subs) = 1
    /\ input = <<" ", " ">>
    /\ subs[1].pc = "done"
    /\ reqs[1].pc = "done"
    /\ reqs[1].responses[1].status = 200

\* C10: a submission that passes the guard starts idle, sets the loading
\* flag and clears the error; the step that settles it, by success or by
\* failure, clears the loading flag; and, the gateway answering, every
\* submission settles.
C10_LoadingCleared ==
    /\ [][(Invoked /\ ~Blank(input)) =>
             (~isLoading /\ isLoading' /\ error' = Null /\ Len(subs') = Len(subs) + 1)]_vars
    /\ [][\A k \in 1..MaxCalls : Settles(k) => ~isLoading']_vars
    /\ \A k \in 1..MaxCalls :
          (Len(subs) >= k /\ subs[k].pc # "done") ~> (Len(subs) >= k /\ subs[k].pc = "done")

\* a failed submission was followed by one that succeeded, and the bridge
\* is idle again with nothing in flight
C10_Witness ==
    /\ Len(subs) = 2
    /\ subs[1].pc = "done" /\ ~Succeeded(subs[1])
    /\ Succeeded(subs[2])
    /\ ~isLoading

====
